---- MODULE Spec2Model ----
(***************************************************************************)
(* A model of rust-txpool (src/main.rs): the format detector, the Inspect  *)
(* translator (a line-oriented state machine) and the Content translator   *)
(* (an ordered pipeline of text rewrites followed by a JSON parse).        *)
(*                                                                         *)
(* Text is a sequence of one-character strings.  JSON values are records   *)
(* tagged by t; an object's members are a function from member names       *)
(* (text) to values.  Option<T> is <<>> for None and <<x>> for Some(x).    *)
(***************************************************************************)
EXTENDS Integers, Sequences, FiniteSets, TLC

VARIABLES
    pc,             \* position of the running call
    input,          \* the text read from standard input
    line,           \* the line the Inspect loop has just processed
    nlines,         \* how many lines the Inspect loop has consumed
    idx,            \* index of the Content translator's catalog loops
    pending,        \* root["pending"]: address -> nonce -> field -> value
    current_addr,   \* Option<String>
    current_nonce,  \* Option<String>
    cleaned,        \* the Content translator's text buffer
    result,         \* what the call returned
    files           \* files created in the working directory

vars == <<pc, input, line, nlines, idx, pending, current_addr, current_nonce,
          cleaned, result, files>>

----------------------------------------------------------------------------
(* Bounds of the model. *)

MaxLines == 4
MaxLen == 3
MaxDepth == 2

----------------------------------------------------------------------------
(* Characters and the classes the patterns of main.rs use. *)

Lower == {"a","b","c","d","e","f","g","h","i","j","k","l","m",
          "n","o","p","q","r","s","t","u","v","w","x","y","z"}
Upper == {"A","B","C","D","E","F","G","H","I","J","K","L","M",
          "N","O","P","Q","R","S","T","U","V","W","X","Y","Z"}
Digit == {"0","1","2","3","4","5","6","7","8","9"}
HexDigit == Digit \cup {"a","b","c","d","e","f","A","B","C","D","E","F"}
AlNum == Lower \cup Upper \cup Digit
WordCh == AlNum \cup {"_"}
White == {" ", "\t", "\n", "\r"}

None == <<>>
Some(x) == <<x>>

Concat(a, b) == a \o b

StartsWith(s, p) == Len(p) <= Len(s) /\ SubSeq(s, 1, Len(p)) = p

EndsWith(s, p) ==
    Len(p) <= Len(s) /\ SubSeq(s, Len(s) - Len(p) + 1, Len(s)) = p

Drop(s, n) == SubSeq(s, n + 1, Len(s))

DropLast(s, n) == SubSeq(s, 1, Len(s) - n)

Min(S) == CHOOSE x \in S : \A y \in S : x <= y

Max(S) == CHOOSE x \in S : \A y \in S : x >= y

\* the positions of s whose character is outside set
Outside(s, set) == {i \in 1..Len(s) : s[i] \notin set}

TrimStartIn(s, set) ==
    IF Outside(s, set) = {} THEN <<>>
    ELSE SubSeq(s, Min(Outside(s, set)), Len(s))

TrimEndIn(s, set) ==
    IF Outside(s, set) = {} THEN <<>>
    ELSE SubSeq(s, 1, Max(Outside(s, set)))

\* str::trim, str::trim_end, str::trim_matches(char)
Trim(s) == TrimEndIn(TrimStartIn(s, White), White)

TrimEnd(s) == TrimEndIn(s, White)

TrimMatches(s, c) == TrimEndIn(TrimStartIn(s, {c}), {c})

\* str::strip_prefix and str::strip_suffix, as Option
StripPrefix(s, p) == IF StartsWith(s, p) THEN Some(Drop(s, Len(p))) ELSE None

StripSuffix(s, p) == IF EndsWith(s, p) THEN Some(DropLast(s, Len(p))) ELSE None

\* whether p occurs in s at position i
LitAt(s, p, i) == i + Len(p) - 1 <= Len(s) /\ SubSeq(s, i, i + Len(p) - 1) = p

\* str::contains
Contains(s, p) == \E i \in 1..(Len(s) + 1) : LitAt(s, p, i)

StripCR(ln) == IF ln # <<>> /\ ln[Len(ln)] = "\r" THEN DropLast(ln, 1) ELSE ln

\* str::lines: split at "\n", a "\r" before it dropped, no last empty line
RECURSIVE LinesFrom(_, _)
LinesFrom(s, from) ==
    IF from > Len(s) THEN <<>>
    ELSE LET nl == {i \in from..Len(s) : s[i] = "\n"}
         IN  IF nl = {} THEN <<SubSeq(s, from, Len(s))>>
             ELSE <<StripCR(SubSeq(s, from, Min(nl) - 1))>>
                  \o LinesFrom(s, Min(nl) + 1)

Lines(s) == LinesFrom(s, 1)

----------------------------------------------------------------------------
(* The regex crate's matching, for the patterns main.rs uses: a pattern is *)
(* a sequence of items, each a literal, a character class with a           *)
(* repetition range (hi = -1: unbounded) or the assertion \b; repetition   *)
(* is greedy with backtracking; a regex is a sequence of alternative       *)
(* patterns tried in order at the leftmost position that matches.          *)

Item(k, str, set, lo, hi) == [k |-> k, str |-> str, set |-> set, lo |-> lo, hi |-> hi]

Lit(str) == <<Item("l", str, {}, 0, 0)>>
One(set) == Item("c", <<>>, set, 1, 1)
Star(set) == Item("c", <<>>, set, 0, -1)
Plus(set) == Item("c", <<>>, set, 1, -1)
Times(set, n) == Item("c", <<>>, set, n, n)
WordBoundary == Item("b", <<>>, {}, 0, 0)

IsWordAt(s, i) == i >= 1 /\ i <= Len(s) /\ s[i] \in WordCh

\* \b holds between positions i-1 and i
AtWordBoundary(s, i) == IsWordAt(s, i - 1) # IsWordAt(s, i)

\* how many characters of set follow from position i, at most hi of them
RunLen(s, i, set, hi) ==
    LET last == IF hi = -1 \/ i + hi - 1 > Len(s) THEN Len(s) ELSE i + hi - 1
        stop == {j \in i..last : s[j] \notin set}
    IN  IF stop = {} THEN last - i + 1 ELSE Min(stop) - i

RECURSIVE MatchFrom(_, _, _, _)
\* the position after the match of items k.. of pat at position i of s,
\* 0 when there is none; a repetition takes the most characters with which
\* the rest still matches
MatchFrom(pat, k, s, i) ==
    IF k > Len(pat) THEN i
    ELSE IF pat[k].k = "b"
    THEN (IF AtWordBoundary(s, i) THEN MatchFrom(pat, k + 1, s, i) ELSE 0)
    ELSE IF pat[k].k = "l"
    THEN (IF LitAt(s, pat[k].str, i)
          THEN MatchFrom(pat, k + 1, s, i + Len(pat[k].str)) ELSE 0)
    ELSE LET run == RunLen(s, i, pat[k].set, pat[k].hi)
             ok == {n \in pat[k].lo..run : MatchFrom(pat, k + 1, s, i + n) # 0}
         IN  IF ok = {} THEN 0 ELSE MatchFrom(pat, k + 1, s, i + Max(ok))

RECURSIVE MatchAlt(_, _, _, _)
MatchAlt(re, a, s, i) ==
    IF a > Len(re) THEN 0
    ELSE LET r == MatchFrom(re[a], 1, s, i)
         IN  IF r # 0 THEN r ELSE MatchAlt(re, a + 1, s, i)

\* the position after the match of re that starts at i, 0 when none does
MatchAt(re, s, i) == MatchAlt(re, 1, s, i)

\* the positions where a match of re starts
Starts(re, s) == {i \in 1..Len(s) : MatchAt(re, s, i) # 0}

\* Regex::find: <<start, end>> of the leftmost match, else <<>>
Find(re, s) ==
    IF Starts(re, s) = {} THEN <<>>
    ELSE <<Min(Starts(re, s)), MatchAt(re, s, Min(Starts(re, s)))>>

\* What a replacement string stands for, given the matched text m:
\* pre, then a group of the match, then post.
\*   g = "none": no group;  "all": the whole match;
\*   "digits": the digits of the match;  "head": the match up to its comma.
Group(g, m) ==
    CASE g = "none" -> <<>>
      [] g = "all" -> m
      [] g = "digits" -> SelectSeq(m, LAMBDA c : c \in Digit)
      [] g = "head" -> SubSeq(m, 1, Min({j \in 1..Len(m) : m[j] = ","}) - 1)

To(str) == [pre |-> str, g |-> "none", post |-> <<>>]

Subst(rep, m) == rep.pre \o Group(rep.g, m) \o rep.post

RECURSIVE ReplaceFrom(_, _, _, _, _)
\* the text from position from on, the matches starting in starts replaced
ReplaceFrom(re, rep, s, starts, from) ==
    LET later == {i \in starts : i >= from}
    IN  IF later = {} THEN SubSeq(s, from, Len(s))
        ELSE LET i == Min(later)
                 e == MatchAt(re, s, i)
             IN  SubSeq(s, from, i - 1) \o Subst(rep, SubSeq(s, i, e - 1))
                 \o ReplaceFrom(re, rep, s, starts, e)

\* Regex::replace_all: every non-overlapping match, leftmost first
ReplaceAll(re, rep, s) == ReplaceFrom(re, rep, s, Starts(re, s), 1)

\* str::replace(from, to)
Replace(s, from, to) == ReplaceAll(<<Lit(from)>>, To(to), s)

----------------------------------------------------------------------------
(* serde_json::Value and Map. *)

JNull == [t |-> "null"]
JBool(b) == [t |-> "bool", v |-> b]
JNum(digits) == [t |-> "num", v |-> digits]
JStr(s) == [t |-> "str", v |-> s]
JArr(items) == [t |-> "arr", v |-> items]
JObj(members) == [t |-> "obj", v |-> members]

EmptyMap == << >>

\* Map::insert: the member is added, or its value replaced
Put(m, k, v) == [x \in (DOMAIN m) \cup {k} |-> IF x = k THEN v ELSE m[x]]

HasKey(m, k) == k \in DOMAIN m

\* Result<Value, Box<dyn Error>>; an error of serde_json carries a line and
\* a column
Ok(v) == [tag |-> "Ok", value |-> v]
Err(kind, l, c) == [tag |-> "Err", kind |-> kind, line |-> l, column |-> c]
NoResult == [tag |-> "none"]

----------------------------------------------------------------------------
(* str::parse::<u64>: an optional "+", then one or more decimal digits,    *)
(* the value at most u64::MAX.  The number is kept as its digits without   *)
(* leading zeros, since 2^64 is beyond the integers of TLC.                *)

U64MaxDigits == <<"1","8","4","4","6","7","4","4","0","7","3","7","0","9","5","5","1","6","1","5">>

RECURSIVE StripZeros(_)
StripZeros(d) == IF Len(d) > 1 /\ Head(d) = "0" THEN StripZeros(Tail(d)) ELSE d

DigitVal(c) == CHOOSE n \in 0..9 : <<"0","1","2","3","4","5","6","7","8","9">>[n + 1] = c

RECURSIVE DigitsLeq(_, _)
\* a <= b for digit strings of equal length
DigitsLeq(a, b) ==
    IF a = <<>> THEN TRUE
    ELSE IF DigitVal(Head(a)) < DigitVal(Head(b)) THEN TRUE
    ELSE IF DigitVal(Head(a)) > DigitVal(Head(b)) THEN FALSE
    ELSE DigitsLeq(Tail(a), Tail(b))

FitsU64(d) ==
    LET n == StripZeros(d)
    IN  Len(n) < Len(U64MaxDigits)
        \/ (Len(n) = Len(U64MaxDigits) /\ DigitsLeq(n, U64MaxDigits))

ParseU64NoOverflowCheck(s) ==
    LET d == IF s # <<>> /\ Head(s) = "+" THEN Tail(s) ELSE s
    IN  IF d = <<>> \/ \E i \in 1..Len(d) : d[i] \notin Digit THEN None
        ELSE Some(StripZeros(d))

ParseU64(s) ==
    LET d == IF s # <<>> /\ Head(s) = "+" THEN Tail(s) ELSE s
    IN  IF d = <<>> \/ \E i \in 1..Len(d) : d[i] \notin Digit THEN None
        ELSE IF ~FitsU64(d) THEN None
        ELSE Some(StripZeros(d))

----------------------------------------------------------------------------
(* parse_txpool_inspect: one pass over the lines of the input.             *)

\* r"(\w{40}): {"
AddrRe == << <<Times(WordCh, 40)>> \o Lit(<<":"," ","{">>) >>

NonceSuffix == <<":"," ","T","x","p","o","o","l","I","n","s","p","e","c","t","S","u","m","m","a","r","y"," ","{">>

InspectLabel == <<"T","x","p","o","o","l","I","n","s","p","e","c","t">>

\* the state of the loop: the map under "pending" and the two cursors
LoopState(p, a, n) == [pending |-> p, addr |-> a, nonce |-> n]

IsSkipped(trimmed) == trimmed = <<>> \/ StartsWith(trimmed, InspectLabel)

\* addr_re.captures(trimmed) and format!("0x{}", &caps[1])
CaptureAddr(trimmed) ==
    LET f == Find(AddrRe, trimmed)
    IN  IF f = <<>> THEN None
        ELSE Some(<<"0","x">> \o SubSeq(trimmed, f[1], f[1] + 39))

CaptureNonceFresh(st, raw) ==
    IF st.addr = None THEN st
    ELSE LET nonce == TrimMatches(raw, "\"")
             addr == st.addr[1]
         IN  LoopState(Put(st.pending, addr, Put(EmptyMap, nonce, EmptyMap)),
                       st.addr, Some(nonce))

\* the nonce branch: raw is the line without NonceSuffix
CaptureNonce(st, raw) ==
    IF st.addr = None THEN st
    ELSE LET nonce == TrimMatches(raw, "\"")
             addr == st.addr[1]
             obj == IF HasKey(st.pending, addr) THEN st.pending[addr]
                    ELSE EmptyMap
         IN  LoopState(Put(st.pending, addr, Put(obj, nonce, EmptyMap)),
                       st.addr, Some(nonce))

\* the integer fields: the literal is inserted when it parses as u64
IntField(entry, name, text) ==
    LET num == ParseU64(TrimMatches(text, ","))
    IN  IF num # None THEN Put(entry, name, JNum(num[1])) ELSE entry

\* the chain of field shapes, applied to the current nonce object
Fields(entry, trimmed) ==
    IF StripPrefix(trimmed, <<"t","o",":"," ","S","o","m","e","(">>) # None
    THEN Put(entry, <<"t","o">>, JStr(<<"0","x">> \o
             TrimMatches(TrimMatches(Trim(StripPrefix(trimmed, <<"t","o",":"," ","S","o","m","e","(">>)[1]), ","), ")")))
    ELSE IF trimmed = <<"t","o",":"," ","N","o","n","e",",">> THEN Put(entry, <<"t","o">>, JNull)
    ELSE IF StripPrefix(trimmed, <<"v","a","l","u","e",":"," ">>) # None
    THEN IntField(entry, <<"v","a","l","u","e">>, StripPrefix(trimmed, <<"v","a","l","u","e",":"," ">>)[1])
    ELSE IF StripPrefix(trimmed, <<"g","a","s",":"," ">>) # None
    THEN IntField(entry, <<"g","a","s">>, StripPrefix(trimmed, <<"g","a","s",":"," ">>)[1])
    ELSE IF StripPrefix(trimmed, <<"g","a","s","_","p","r","i","c","e",":"," ">>) # None
    THEN IntField(entry, <<"g","a","s","_","p","r","i","c","e">>, StripPrefix(trimmed, <<"g","a","s","_","p","r","i","c","e",":"," ">>)[1])
    ELSE entry

\* pending.get_mut(addr).and_then(|a| a.get_mut(nonce))
HasEntry(p, a, n) ==
    a # None /\ n # None /\ HasKey(p, a[1]) /\ HasKey(p[a[1]], n[1])

CaptureFields(st, trimmed) ==
    IF HasEntry(st.pending, st.addr, st.nonce)
    THEN LET a == st.addr[1]
             n == st.nonce[1]
         IN  [st EXCEPT !.pending =
                 Put(st.pending, a,
                     Put(st.pending[a], n, Fields(st.pending[a][n], trimmed)))]
    ELSE st

ResetBlockBoth(st, trimmed) ==
    IF trimmed = <<"}",",">> \/ trimmed = <<"}">>
    THEN [st EXCEPT !.nonce = None, !.addr = None]
    ELSE st

\* the end of a block
ResetBlock(st, trimmed) ==
    IF trimmed = <<"}",",">> \/ trimmed = <<"}">>
    THEN IF st.nonce # None THEN [st EXCEPT !.nonce = None]
         ELSE IF st.addr # None THEN [st EXCEPT !.addr = None]
         ELSE st
    ELSE st

\* the body of the loop for one line
InspectLine(st, ln) ==
    LET trimmed == Trim(ln)
    IN  IF IsSkipped(trimmed) THEN st
        ELSE IF CaptureAddr(trimmed) # None
        THEN [st EXCEPT !.addr = CaptureAddr(trimmed)]
        ELSE IF StripSuffix(trimmed, NonceSuffix) # None
        THEN CaptureNonce(st, StripSuffix(trimmed, NonceSuffix)[1])
        ELSE ResetBlock(CaptureFields(st, trimmed), trimmed)

\* json!({ "pending": ... }) with the map built by the loop
NonceObject(fields) == JObj(fields)

AddrObject(nonces) == JObj([n \in DOMAIN nonces |-> NonceObject(nonces[n])])

Root(p) == JObj(Put(EmptyMap, <<"p","e","n","d","i","n","g">>,
                    JObj([a \in DOMAIN p |-> AddrObject(p[a])])))

----------------------------------------------------------------------------
(* The Inspect translator as a state machine: the call, one step per line  *)
(* of the input, the return.  The lines are drawn from InspectLines.       *)

Rep40(c) == [i \in 1..40 |-> c]

AddrA == Rep40("a")
AddrB == Rep40("b")
Addrs == {AddrA, AddrB}

AddrLine(a) == a \o <<":"," ","{">>
NonceLine(n) == <<"\"">> \o n \o <<"\"">> \o NonceSuffix
ToSomeLine(a) == <<"t","o",":"," ","S","o","m","e","(">> \o a \o <<")",",">>
ToNoneLine == <<"t","o",":"," ","N","o","n","e",",">>
FieldLine(name, lit) == name \o <<":"," ">> \o lit \o <<",">>

IntFields == {<<"v","a","l","u","e">>, <<"g","a","s">>, <<"g","a","s","_","p","r","i","c","e">>}

IntLiterals == {<<"7">>, <<"0","0","7">>, <<"+","7">>, U64MaxDigits, <<"1","8","4","4","6","7","4","4","0","7","3","7","0","9","5","5","1","6","1","6">>,
                <<"-","1">>, <<"x","7">>, <<>>}

FewLiterals == {<<"7">>, <<"1","8","4","4","6","7","4","4","0","7","3","7","0","9","5","5","1","6","1","6">>, <<"x","7">>}

Nonces == {<<"5">>, <<"6">>}

InspectLines ==
    {AddrLine(AddrA), <<" "," "," "," ","0","x">> \o AddrLine(AddrB)}
    \cup {NonceLine(n) : n \in Nonces}
    \cup {ToSomeLine(AddrB), <<" "," ","t","o",":"," ","N","o","n","e",","," "," ">>}
    \cup {FieldLine(<<"v","a","l","u","e">>, lit) : lit \in IntLiterals}
    \cup {FieldLine(f, lit) : f \in {<<"g","a","s">>, <<"g","a","s","_","p","r","i","c","e">>}, lit \in FewLiterals}
    \cup {<<"}">>, <<" "," "," "," ","}",",">>, <<>>, <<"T","x","p","o","o","l","I","n","s","p","e","c","t"," ","{">>, <<"h","a","s","h",":"," ","0","x","1",",">>}

InitCommon ==
    /\ input = <<>>
    /\ line = <<>>
    /\ nlines = 0
    /\ idx = 0
    /\ pending = EmptyMap
    /\ current_addr = None
    /\ current_nonce = None
    /\ cleaned = <<>>
    /\ result = NoResult
    /\ files = EmptyMap

InitInspect == pc = "inspect" /\ InitCommon

\* Regex::new(r"(\w{40}): {")? : the pattern ends in an unescaped "{", which
\* the regex crate's parser reports as an unclosed counted repetition; the
\* crate is not part of the repository, and both results of the call are
\* admitted so that the loop behind it is covered as well.
InspectBegin ==
    /\ pc = "inspect"
    /\ \/ /\ pc' = "loop"
          /\ UNCHANGED result
       \/ /\ pc' = "failed"
          /\ result' = Err("Regex", 0, 0)
    /\ UNCHANGED <<input, line, nlines, idx, pending, current_addr, current_nonce,
                   cleaned, files>>

InspectStep ==
    /\ pc = "loop"
    /\ nlines < MaxLines
    /\ \E ln \in InspectLines :
         LET st == InspectLine(LoopState(pending, current_addr, current_nonce), ln)
         IN  /\ line' = ln
             /\ pending' = st.pending
             /\ current_addr' = st.addr
             /\ current_nonce' = st.nonce
    /\ nlines' = nlines + 1
    /\ UNCHANGED <<pc, input, idx, cleaned, result, files>>

InspectReturn ==
    /\ pc = "loop"
    /\ pc' = "returned"
    /\ result' = Ok(Root(pending))
    /\ UNCHANGED <<input, line, nlines, idx, pending, current_addr, current_nonce,
                   cleaned, files>>

NextInspect == InspectBegin \/ InspectStep \/ InspectReturn

SpecInspect == InitInspect /\ [][NextInspect]_vars

----------------------------------------------------------------------------
(* parse_txpool_content: the rewrite passes, in the order of the source.   *)

\* the wrapper catalog, in the order the loop visits it
type_wrappers == <<
    <<"T","x","p","o","o","l","C","o","n","t","e","n","t">>,
    <<"A","n","y","R","p","c","T","r","a","n","s","a","c","t","i","o","n">>,
    <<"W","i","t","h","O","t","h","e","r","F","i","e","l","d","s">>,
    <<"T","r","a","n","s","a","c","t","i","o","n">>,
    <<"R","e","c","o","v","e","r","e","d">>,
    <<"E","t","h","e","r","e","u","m">>,
    <<"E","i","p","1","5","5","9">>,
    <<"S","i","g","n","e","d">>,
    <<"T","x","E","i","p","1","5","5","9">>,
    <<"C","a","l","l">>,
    <<"O","n","c","e","L","o","c","k">>,
    <<"P","r","i","m","i","t","i","v","e","S","i","g","n","a","t","u","r","e">>,
    <<"A","c","c","e","s","s","L","i","s","t">>,
    <<"O","t","h","e","r","F","i","e","l","d","s">>,
    <<"A","n","y","R","p","c">>,
    <<"T","x">>,
    <<"L","e","g","a","c","y">>,
    <<"T","x","L","e","g","a","c","y">>,
    <<"E","i","p","2","9","3","0">>,
    <<"T","x","E","i","p","2","9","3","0">>,
    <<"E","i","p","4","8","4","4">>,
    <<"T","x","E","i","p","4","8","4","4">>,
    <<"D","e","p","o","s","i","t","R","e","c","e","i","p","t">>,
    <<"D","e","p","o","s","i","t","T","r","a","n","s","a","c","t","i","o","n">>,
    <<"O","p","D","e","p","o","s","i","t","R","e","c","e","i","p","t">>,
    <<"S","e","q","u","e","n","t","i","a","l","R","e","c","e","i","p","t">>,
    <<"C","r","e","a","t","e">>,
    <<"A","c","c","e","s","s","L","i","s","t","I","t","e","m">>,
    <<"T","x","E","i","p","7","7","0","2">>,
    <<"E","i","p","7","7","0","2">>,
    <<"A","u","t","h","o","r","i","z","a","t","i","o","n">> >>

\* the field-name catalog, in the order the loop visits it
field_names == <<
    <<"p","e","n","d","i","n","g">>,
    <<"q","u","e","u","e","d">>,
    <<"i","n","n","e","r">>,
    <<"s","i","g","n","e","r">>,
    <<"t","o">>,
    <<"v","a","l","u","e">>,
    <<"i","n","p","u","t">>,
    <<"s","i","g","n","a","t","u","r","e">>,
    <<"y","_","p","a","r","i","t","y">>,
    <<"r">>,
    <<"s">>,
    <<"h","a","s","h">>,
    <<"b","l","o","c","k","_","h","a","s","h">>,
    <<"b","l","o","c","k","_","n","u","m","b","e","r">>,
    <<"t","r","a","n","s","a","c","t","i","o","n","_","i","n","d","e","x">>,
    <<"e","f","f","e","c","t","i","v","e","_","g","a","s","_","p","r","i","c","e">>,
    <<"o","t","h","e","r">>,
    <<"c","h","a","i","n","_","i","d">>,
    <<"n","o","n","c","e">>,
    <<"g","a","s","_","l","i","m","i","t">>,
    <<"m","a","x","_","f","e","e","_","p","e","r","_","g","a","s">>,
    <<"m","a","x","_","p","r","i","o","r","i","t","y","_","f","e","e","_","p","e","r","_","g","a","s">>,
    <<"t","x">>,
    <<"a","c","c","e","s","s","_","l","i","s","t">>,
    <<"g","a","s">>,
    <<"g","a","s","_","p","r","i","c","e">>,
    <<"f","r","o","m">>,
    <<"d","a","t","a">>,
    <<"t","y","p","e">>,
    <<"v">>,
    <<"a","d","d","r","e","s","s">>,
    <<"s","t","o","r","a","g","e","_","k","e","y","s">>,
    <<"b","l","o","b","_","v","e","r","s","i","o","n","e","d","_","h","a","s","h","e","s">>,
    <<"m","a","x","_","f","e","e","_","p","e","r","_","b","l","o","b","_","g","a","s">>,
    <<"a","u","t","h","o","r","i","z","a","t","i","o","n","_","l","i","s","t">> >>

\* one round of the wrapper loop: "W {" and "W(" lose the name, then the
\* pattern W\s*\{ does
EraseWrapper(c, w) ==
    LET a == Replace(c, w \o <<" ","{">>, <<"{">>)
        b == Replace(a, w \o <<"(">>, <<"(">>)
    IN  ReplaceAll(<< Lit(w) \o <<Star(White)>> \o Lit(<<"{">>) >>, To(<<"{">>), b)

\* Step 2
FlattenOptions(c) == Replace(Replace(c, <<"S","o","m","e","(">>, <<>>), <<"N","o","n","e">>, <<"n","u","l","l">>)

\* \bfield\s*: becomes "field":
QuoteField(c, f) ==
    ReplaceAll(<< <<WordBoundary>> \o Lit(f) \o <<Star(White)>> \o Lit(<<":">>) >>,
               To(<<"\"">> \o f \o <<"\"",":">>), c)

\* Step 4
MapCreate(c) == Replace(Replace(c, <<"C","r","e","a","t","e",",">>, <<"n","u","l","l",",">>), <<"C","r","e","a","t","e","\n">>, <<"n","u","l","l","\n">>)

\* Step 5: \b0x([0-9a-fA-F]*)\b becomes "0x$1"
QuoteHex(c) ==
    ReplaceAll(<< <<WordBoundary>> \o Lit(<<"0","x">>) \o <<Star(HexDigit), WordBoundary>> >>,
               [pre |-> <<"\"">>, g |-> "all", post |-> <<"\"">>], c)

\* Step 5 (second): parentheses
CleanParens(c) ==
    LET a == ReplaceAll(<< Lit(<<":">>) \o <<Star(White)>> \o Lit(<<"(">>) >>, To(<<":"," ">>), c)
        b == Replace(a, <<")",",">>, <<",">>)
        d == Replace(b, <<")">>, <<>>)
    IN  Replace(d, <<"(">>, <<>>)

Spaces(n) == [i \in 1..n |-> " "]

\* Step 6
FixEmpty(c) ==
    LET a == Replace(c, <<"\n">> \o Spaces(48) \o <<"[","]",",">> \o <<"\n">> \o Spaces(44), <<"[","]">>)
        b == Replace(a, <<"[","]">>, <<"[","]">>)
    IN  Replace(b, <<" ","{","}">>, <<"{","}">>)

\* [A-Z][a-zA-Z0-9]*\{ and :\s*([A-Z][a-zA-Z0-9]*)\s*\n\s*\{
RemoveTypeNames(c) ==
    LET a == ReplaceAll(<< <<One(Upper), Star(AlNum)>> \o Lit(<<"{">>) >>, To(<<"{">>), c)
    IN  ReplaceAll(<< Lit(<<":">>) \o <<Star(White), One(Upper), Star(AlNum),
                                    Star(White)>> \o Lit(<<"\n">>)
                       \o <<Star(White)>> \o Lit(<<"{">>) >>,
                   To(<<":"," ","{">>), a)

\* Step 7: :\s*(\d+)_ becomes ": $1"
RemoveUnderscores(c) ==
    ReplaceAll(<< Lit(<<":">>) \o <<Star(White), Plus(Digit)>> \o Lit(<<"_">>) >>,
               [pre |-> <<":"," ">>, g |-> "digits", post |-> <<>>], c)

\* ("0x[0-9a-fA-F]+"|true|false|\d+),\s*<close>
ValueThenCommaRe(close) ==
    LET tail == Lit(<<",">>) \o <<Star(White)>> \o Lit(<<close>>)
    IN  << Lit(<<"\"","0","x">>) \o <<Plus(HexDigit)>> \o Lit(<<"\"">>) \o tail,
           Lit(<<"t","r","u","e">>) \o tail,
           Lit(<<"f","a","l","s","e">>) \o tail,
           <<Plus(Digit)>> \o tail >>

CommaRe(before, close) ==
    << before \o Lit(<<",">>) \o <<Star(White)>> \o Lit(<<close>>) >>

\* Step 8 and Step 9: the trailing-comma rewrites, each applied once
FixTrailingCommas(c) ==
    LET r1 == ReplaceAll(CommaRe(Lit(<<"}">>), "}"), To(<<"}","}">>), c)
        r2 == ReplaceAll(CommaRe(Lit(<<"]">>), "}"), To(<<"]","}">>), r1)
        r3 == ReplaceAll(CommaRe(Lit(<<"}">>), "]"), To(<<"}","]">>), r2)
        r4 == ReplaceAll(CommaRe(<<>>, "}"), To(<<"}">>), r3)
        r5 == ReplaceAll(CommaRe(<<>>, "]"), To(<<"]">>), r4)
        r6 == ReplaceAll(<< Lit(<<"\n">>) \o <<Star(White)>> \o Lit(<<",">>)
                              \o <<Star(White)>> \o Lit(<<"\n">>) >>, To(<<"\n">>), r5)
        r7 == ReplaceAll(ValueThenCommaRe("}"),
                         [pre |-> <<>>, g |-> "head", post |-> <<"}">>], r6)
    IN  ReplaceAll(ValueThenCommaRe("]"),
                   [pre |-> <<>>, g |-> "head", post |-> <<"]">>], r7)

RECURSIVE NextNonEmpty(_, _)
\* the index of the first line at or after j that is not blank
NextNonEmpty(lines, j) ==
    IF j <= Len(lines) /\ Trim(lines[j]) = <<>> THEN NextNonEmpty(lines, j + 1)
    ELSE j

FinalLine(lines, i) ==
    LET ln == TrimEnd(lines[i])
        j == NextNonEmpty(lines, i + 1)
    IN  IF (EndsWith(ln, <<"}",",">>) \/ EndsWith(ln, <<"]",",">>))
           /\ j <= Len(lines)
           /\ (StartsWith(Trim(lines[j]), <<"}">>) \/ StartsWith(Trim(lines[j]), <<"]">>))
        THEN DropLast(ln, 1) \o <<"\n">>
        ELSE ln \o <<"\n">>

RECURSIVE FinalFrom(_, _)
FinalFrom(lines, i) ==
    IF i > Len(lines) THEN <<>> ELSE FinalLine(lines, i) \o FinalFrom(lines, i + 1)

\* the final line-by-line cleanup
FinalCleanup(c) == FinalFrom(Lines(c), 1)

----------------------------------------------------------------------------
(* serde_json::from_str, for the JSON this program meets: objects, arrays, *)
(* strings without escapes, numbers, true, false and null; an error        *)
(* carries the line and column of the character that stopped the parser.   *)

JsonWs == {" ", "\n", "\t", "\r"}

SkipWs(s, i) == i + RunLen(s, i, JsonWs, -1)

Parsed(v, next) == [ok |-> TRUE, v |-> v, next |-> next]
Stopped(at) == [ok |-> FALSE, v |-> JNull, next |-> at]

\* a string starting at the quote at position i
ParseString(s, i) ==
    LET close == {j \in (i + 1)..Len(s) : s[j] = "\""}
    IN  IF close = {} THEN Stopped(Len(s) + 1)
        ELSE LET q == Min(close)
                 bad == {j \in (i + 1)..(q - 1) : s[j] \in {"\n", "\t", "\r", "\\"}}
             IN  IF bad # {} THEN Stopped(Min(bad))
                 ELSE Parsed(JStr(SubSeq(s, i + 1, q - 1)), q + 1)

\* a number starting at position i: -? (0 | [1-9][0-9]*) (. [0-9]+)?
ParseNumber(s, i) ==
    LET d == IF s[i] = "-" THEN i + 1 ELSE i
        n == RunLen(s, d, Digit, -1)
        int == IF n > 0 /\ s[d] = "0" THEN 1 ELSE n
        e == d + int
        frac == IF e <= Len(s) /\ s[e] = "." THEN 1 + RunLen(s, e + 1, Digit, -1)
                ELSE 0
    IN  IF int = 0 THEN Stopped(d)
        ELSE IF int < n THEN Stopped(e)
        ELSE IF frac = 1 THEN Stopped(e + 1)
        ELSE Parsed(JNum(SubSeq(s, i, e + frac - 1)), e + frac)

RECURSIVE ParseValue(_, _)
RECURSIVE ParseMembers(_, _, _)
RECURSIVE ParseItems(_, _, _)

ParseValue(s, i0) ==
    LET i == SkipWs(s, i0)
    IN  IF i > Len(s) THEN Stopped(i)
        ELSE IF s[i] = "{"
        THEN (IF SkipWs(s, i + 1) <= Len(s) /\ s[SkipWs(s, i + 1)] = "}"
              THEN Parsed(JObj(EmptyMap), SkipWs(s, i + 1) + 1)
              ELSE ParseMembers(s, SkipWs(s, i + 1), EmptyMap))
        ELSE IF s[i] = "["
        THEN (IF SkipWs(s, i + 1) <= Len(s) /\ s[SkipWs(s, i + 1)] = "]"
              THEN Parsed(JArr(<<>>), SkipWs(s, i + 1) + 1)
              ELSE ParseItems(s, i + 1, <<>>))
        ELSE IF s[i] = "\"" THEN ParseString(s, i)
        ELSE IF s[i] = "-" \/ s[i] \in Digit THEN ParseNumber(s, i)
        ELSE IF LitAt(s, <<"t","r","u","e">>, i) THEN Parsed(JBool(TRUE), i + 4)
        ELSE IF LitAt(s, <<"f","a","l","s","e">>, i) THEN Parsed(JBool(FALSE), i + 5)
        ELSE IF LitAt(s, <<"n","u","l","l">>, i) THEN Parsed(JNull, i + 4)
        ELSE Stopped(i)

\* the members of an object from position i (a member name expected there)
ParseMembers(s, i, acc) ==
    IF i > Len(s) \/ s[i] # "\"" THEN Stopped(i)
    ELSE LET k == ParseString(s, i)
             c == SkipWs(s, k.next)
         IN  IF ~k.ok THEN k
             ELSE IF c > Len(s) \/ s[c] # ":" THEN Stopped(c)
             ELSE LET v == ParseValue(s, c + 1)
                      e == SkipWs(s, v.next)
                  IN  IF ~v.ok THEN v
                      ELSE IF e > Len(s) THEN Stopped(e)
                      ELSE IF s[e] = "}"
                      THEN Parsed(JObj(Put(acc, k.v.v, v.v)), e + 1)
                      ELSE IF s[e] = ","
                      THEN ParseMembers(s, SkipWs(s, e + 1), Put(acc, k.v.v, v.v))
                      ELSE Stopped(e)

\* the items of an array from position i
ParseItems(s, i, acc) ==
    LET v == ParseValue(s, i)
        e == SkipWs(s, v.next)
    IN  IF ~v.ok THEN v
        ELSE IF e > Len(s) THEN Stopped(e)
        ELSE IF s[e] = "]" THEN Parsed(JArr(Append(acc, v.v)), e + 1)
        ELSE IF s[e] = "," THEN ParseItems(s, e + 1, Append(acc, v.v))
        ELSE Stopped(e)

LineOf(s, p) == 1 + Cardinality({j \in 1..(p - 1) : j <= Len(s) /\ s[j] = "\n"})

ColumnOf(s, p) ==
    LET nl == {j \in 1..(p - 1) : j <= Len(s) /\ s[j] = "\n"}
    IN  IF nl = {} THEN p ELSE p - Max(nl)

JsonError(s, p) == Err("JsonSyntax", LineOf(s, p), ColumnOf(s, p))

\* from_str: one value, then nothing but whitespace
ParseJson(s) ==
    LET r == ParseValue(s, 1)
        e == SkipWs(s, r.next)
    IN  IF ~r.ok THEN JsonError(s, r.next)
        ELSE IF e <= Len(s) THEN JsonError(s, e)
        ELSE Ok(r.v)

----------------------------------------------------------------------------
(* The Content translator as a state machine: one step per round of the    *)
(* wrapper loop and of the field loop, one per later rewrite, the parse.   *)

DiagName == "debug_clean_<ts>.txt"
OutputName == "txpool_<ts>.json"

\* what std::fs::write(&debug_filename, &cleaned) writes
DiagContentInput(text, raw) == raw

DiagContent(text, raw) == text

ContentKeep == <<input, line, nlines, pending, current_addr, current_nonce>>

ContentWrapper ==
    /\ pc = "wrappers"
    /\ cleaned' = EraseWrapper(cleaned, type_wrappers[idx])
    /\ IF idx < Len(type_wrappers)
       THEN idx' = idx + 1 /\ pc' = pc
       ELSE idx' = 0 /\ pc' = "options"
    /\ UNCHANGED <<ContentKeep, result, files>>

ContentOptions ==
    /\ pc = "options"
    /\ cleaned' = FlattenOptions(cleaned)
    /\ pc' = "fields"
    /\ idx' = 1
    /\ UNCHANGED <<ContentKeep, result, files>>

ContentField ==
    /\ pc = "fields"
    /\ cleaned' = QuoteField(cleaned, field_names[idx])
    /\ IF idx < Len(field_names)
       THEN idx' = idx + 1 /\ pc' = pc
       ELSE idx' = 0 /\ pc' = "create"
    /\ UNCHANGED <<ContentKeep, result, files>>

\* Steps 4 to 7: the rewrites between the field loop and the commas
ContentRewrite ==
    /\ \/ pc = "create" /\ cleaned' = MapCreate(cleaned) /\ pc' = "hex"
       \/ pc = "hex" /\ cleaned' = QuoteHex(cleaned) /\ pc' = "parens"
       \/ pc = "parens" /\ cleaned' = CleanParens(cleaned) /\ pc' = "empty"
       \/ pc = "empty" /\ cleaned' = FixEmpty(cleaned) /\ pc' = "typenames"
       \/ pc = "typenames" /\ cleaned' = RemoveTypeNames(cleaned)
                           /\ pc' = "underscores"
       \/ pc = "underscores" /\ cleaned' = RemoveUnderscores(cleaned)
                             /\ pc' = "commas"
    /\ UNCHANGED <<ContentKeep, idx, result, files>>

ContentCommas ==
    /\ pc = "commas"
    /\ cleaned' = FixTrailingCommas(cleaned)
    /\ pc' = "final"
    /\ UNCHANGED <<ContentKeep, idx, result, files>>

ContentFinal ==
    /\ pc = "final"
    /\ cleaned' = FinalCleanup(cleaned)
    /\ pc' = "parse"
    /\ UNCHANGED <<ContentKeep, idx, result, files>>

\* match serde_json::from_str(&cleaned): the value, or the diagnostic file
\* and the error; reading the clock and writing the file can fail, and the
\* "?" then returns that error in place of the parser's
ContentParse ==
    /\ pc = "parse"
    /\ \/ /\ ParseJson(cleaned).tag = "Ok"
          /\ result' = ParseJson(cleaned)
          /\ pc' = "returned"
          /\ UNCHANGED files
       \/ /\ ParseJson(cleaned).tag = "Err"
          /\ pc' = "failed"
          /\ \/ /\ result' = Err("SystemTime", 0, 0)
                /\ UNCHANGED files
             \/ /\ result' = Err("Io", 0, 0)
                /\ \/ UNCHANGED files
                   \/ files' = Put(files, DiagName, <<>>)
             \/ /\ files' = Put(files, DiagName, DiagContent(cleaned, input))
                /\ result' = ParseJson(cleaned)
    /\ UNCHANGED <<ContentKeep, idx, cleaned>>

NextContent ==
    \/ ContentWrapper
    \/ ContentOptions
    \/ ContentField
    \/ ContentRewrite
    \/ ContentCommas
    \/ ContentFinal
    \/ ContentParse

----------------------------------------------------------------------------
(* main and parse_debug_format: the input is read, a translator is chosen  *)
(* by its marker, and the value it returns is written to the output file.  *)

ContentMarker == <<"T","x","p","o","o","l","C","o","n","t","e","n","t">>
InspectMarker == <<"T","x","p","o","o","l","I","n","s","p","e","c","t">>

DetectInspectByDefault(text) ==
    IF Contains(text, ContentMarker) THEN "Content" ELSE "Inspect"

\* the branch parse_debug_format takes
Detect(text) ==
    IF Contains(text, ContentMarker) THEN "Content"
    ELSE IF Contains(text, InspectMarker) THEN "Inspect"
    ELSE "Unknown"

RECURSIVE InspectFold(_, _, _)
\* the loop of parse_txpool_inspect over lines i.. of the input
InspectFold(st, lines, i) ==
    IF i > Len(lines) THEN st
    ELSE InspectFold(InspectLine(st, lines[i]), lines, i + 1)

MainDispatch ==
    /\ pc = "main"
    /\ \/ /\ Detect(input) = "Content"
          /\ pc' = "wrappers"
          /\ idx' = 1
          /\ cleaned' = input
          /\ UNCHANGED result
       \/ /\ Detect(input) = "Inspect"
          /\ pc' = "inspect"
          /\ UNCHANGED <<idx, cleaned, result>>
       \/ /\ Detect(input) = "Unknown"
          /\ pc' = "failed"
          /\ result' = Err("UnknownFormat", 0, 0)
          /\ UNCHANGED <<idx, cleaned>>
    /\ UNCHANGED <<input, line, nlines, pending, current_addr, current_nonce,
                   files>>

\* the whole call of parse_txpool_inspect on the input
MainInspect ==
    /\ pc = "inspect"
    /\ \/ /\ pc' = "failed"
          /\ result' = Err("Regex", 0, 0)
          /\ UNCHANGED <<nlines, pending, current_addr, current_nonce>>
       \/ LET st == InspectFold(LoopState(EmptyMap, None, None), Lines(input), 1)
          IN  /\ pending' = st.pending
              /\ current_addr' = st.addr
              /\ current_nonce' = st.nonce
              /\ nlines' = Len(Lines(input))
              /\ result' = Ok(Root(st.pending))
              /\ pc' = "returned"
    /\ UNCHANGED <<input, line, idx, cleaned, files>>

\* main after parse_result?: the clock, File::create, write_all
MainWrite ==
    /\ pc = "returned"
    /\ \/ /\ pc' = "failed"
          /\ result' = Err("SystemTime", 0, 0)
          /\ UNCHANGED files
       \/ /\ pc' = "failed"
          /\ result' = Err("Io", 0, 0)
          /\ \/ UNCHANGED files
             \/ files' = Put(files, OutputName, <<>>)
       \/ /\ pc' = "exited"
          /\ files' = Put(files, OutputName, [pretty |-> result.value])
          /\ UNCHANGED result
    /\ UNCHANGED <<input, line, nlines, idx, pending, current_addr,
                   current_nonce, cleaned>>

----------------------------------------------------------------------------
(* The program: main on each text of MainInputs.                           *)

UnknownInputs ==
    { <<>>,
      <<"h","e","l","l","o">>,
      <<"T","x","p","o","o","l"," ","{","\n","}","\n">>,
      <<"t","x","p","o","o","l","c","o","n","t","e","n","t"," ","{"," ","p","e","n","d","i","n","g",":"," ","{","}"," ","}">>,
      <<"T","x","p","o","o","l","I","n","s","p","e","c"," ","{","\n","}">>,
      <<"{","\"","p","e","n","d","i","n","g","\"",":"," ","{","}","}">> }

ContentInputs ==
    { <<"T","x","p","o","o","l","C","o","n","t","e","n","t"," ","{","\n"," "," "," "," ","p","e","n","d","i","n","g",":"," ","{","}",",","\n"," "," "," "," ","q","u","e","u","e","d",":"," ","{","}",",","\n","}","\n">>,
      <<"T","x","p","o","o","l","C","o","n","t","e","n","t"," ","{","\n"," ","p","e","n","d","i","n","g",":"," ","{","\n"," "," ","0","x","a","a",":"," ","{","\n"," "," "," ","\"","5","\"",":"," ","T","r","a","n","s","a","c","t","i","o","n"," ","{","\n"," "," "," "," ","n","o","n","c","e",":"," ","5",",","\n"," "," "," "," ","t","o",":"," ","C","a","l","l","(","\n"," "," "," "," "," ","0","x","b","b",",","\n"," "," "," "," ",")",",","\n"," "," "," "," ","v","a","l","u","e",":"," ","1","_","0","0","0",",","\n"," "," "," "," ","i","n","p","u","t",":"," ","0","x",",","\n"," "," "," ","}",",","\n"," "," ","}",",","\n"," ","}",",","\n"," ","q","u","e","u","e","d",":"," ","{","}",",","\n","}","\n">>,
      <<"T","x","p","o","o","l","C","o","n","t","e","n","t"," ","{"," ","t","o",":"," ","C","r","e","a","t","e",","," ","g","a","s",":"," ","N","o","n","e"," ","}">>,
      <<"T","x","p","o","o","l","C","o","n","t","e","n","t"," ","{"," ","p","e","n","d","i","n","g",":"," ","{">>,
      <<"T","x","p","o","o","l","C","o","n","t","e","n","t"," ","{",",",",","}">>,
      <<"T","x","p","o","o","l","C","o","n","t","e","n","t"," ","{"," ","t","o",":"," ","S","o","m","e","(","0","x","b","b",")",","," ","t","y","p","e",":"," ","L","e","g","a","c","y"," ","}">>,
      <<"T","x","p","o","o","l","C","o","n","t","e","n","t"," ","T","x","p","o","o","l","I","n","s","p","e","c","t"," ","{","}">> }

InspectInputs ==
    { <<"T","x","p","o","o","l","I","n","s","p","e","c","t"," ","{","\n","}","\n">>,
      <<"T","x","p","o","o","l","I","n","s","p","e","c","t"," ","{","\n"," "," "," "," ","p","e","n","d","i","n","g",":"," ","{","\n"," "," "," "," "," "," "," "," ">> \o AddrLine(AddrA)
        \o <<"\n"," "," "," "," "," "," "," "," "," "," "," "," ">> \o NonceLine(<<"5">>)
        \o <<"\n"," "," "," "," "," "," "," "," "," "," "," "," "," "," "," "," ","t","o",":"," ","N","o","n","e",",","\n"," "," "," "," "," "," "," "," "," "," "," "," "," "," "," "," ","v","a","l","u","e",":"," ","7",",","\n"," "," "," "," "," "," "," "," "," "," "," "," ","}",",","\n"," "," "," "," "," "," "," "," ","}",",","\n"," "," "," "," ","}",",","\n","}","\n">>,
      <<"T","x","p","o","o","l","I","n","s","p","e","c","t"," ","{","\n">> \o AddrLine(AddrB) \o <<"\n","}","\n">> }

MainInputs == UnknownInputs \cup ContentInputs \cup InspectInputs

Init ==
    /\ pc = "main"
    /\ input \in MainInputs
    /\ line = <<>>
    /\ nlines = 0
    /\ idx = 0
    /\ pending = EmptyMap
    /\ current_addr = None
    /\ current_nonce = None
    /\ cleaned = <<>>
    /\ result = NoResult
    /\ files = EmptyMap

Next == MainDispatch \/ MainInspect \/ MainWrite \/ NextContent

Spec == Init /\ [][Next]_vars

----------------------------------------------------------------------------
(* parse_txpool_content called on a JSON object wrapped in wrapper tokens. *)

\* objects of numbers, booleans, null, arrays and objects, written compactly
PlainObjects ==
    { [text |-> <<"{","}">>, value |-> JObj(EmptyMap)],
      [text |-> <<"{","\"","t","o","\"",":","1","}">>,
       value |-> JObj(Put(EmptyMap, <<"t","o">>, JNum(<<"1">>)))],
      [text |-> <<"{","\"","a","\"",":","[","t","r","u","e",",","n","u","l","l","]",",","\"","b","\"",":","{","\"","g","a","s","\"",":","-","2","}","}">>,
       value |-> JObj(Put(Put(EmptyMap, <<"a">>, JArr(<<JBool(TRUE), JNull>>)),
                          <<"b">>, JObj(Put(EmptyMap, <<"g","a","s">>, JNum(<<"-","2">>)))))] }

\* an object with a string member that reads as a hex literal
HexObjects ==
    { [text |-> <<"{","\"","h","a","s","h","\"",":","\"","0","x","1","f","\"","}">>,
       value |-> JObj(Put(EmptyMap, <<"h","a","s","h">>, JStr(<<"0","x","1","f">>)))] }

Objects == PlainObjects \cup HexObjects

\* d wrappers of the catalog from the one at index start on, outermost first
Chain(start, d) ==
    [k \in 1..d |-> type_wrappers[((start + k - 2) % Len(type_wrappers)) + 1]]

Nestings == {Chain(s, d) : s \in 1..Len(type_wrappers), d \in 1..MaxDepth}

Forms == {"paren", "brace", "newline", "spaced"}

RECURSIVE WrapFrom(_, _, _, _)
\* W1(W2(...Wn(obj))), the innermost as Wn(obj), "Wn obj", Wn, newline, obj
\* or Wn( obj )
WrapFrom(ws, i, form, obj) ==
    IF i > Len(ws) THEN obj
    ELSE IF i = Len(ws) /\ form = "spaced" THEN ws[i] \o <<"("," ">> \o obj \o <<" ",")">>
    ELSE IF i = Len(ws) /\ form = "brace" THEN ws[i] \o <<" ">> \o obj
    ELSE IF i = Len(ws) /\ form = "newline" THEN ws[i] \o <<"\n">> \o obj
    ELSE ws[i] \o <<"(">> \o WrapFrom(ws, i + 1, form, obj) \o <<")">>

Wrap(ws, form, obj) == WrapFrom(ws, 1, form, obj)

RoundTripInputs ==
    {Wrap(ws, f, o.text) : ws \in Nestings, f \in Forms, o \in Objects}

InitContent ==
    /\ pc = "wrappers"
    /\ input \in RoundTripInputs
    /\ cleaned = input
    /\ idx = 1
    /\ line = <<>>
    /\ nlines = 0
    /\ pending = EmptyMap
    /\ current_addr = None
    /\ current_nonce = None
    /\ result = NoResult
    /\ files = EmptyMap

SpecContent == InitContent /\ [][NextContent]_vars

----------------------------------------------------------------------------
(* The trailing-comma rewrites applied to a text and then to their own     *)
(* output.                                                                 *)

CommaAlphabet == {",", "}", "]", " ", "\n", "1"}

RECURSIVE TextsUpTo(_)
TextsUpTo(n) ==
    IF n = 0 THEN {<<>>}
    ELSE TextsUpTo(n - 1)
         \cup {Append(t, c) : t \in {u \in TextsUpTo(n - 1) : Len(u) = n - 1},
                              c \in CommaAlphabet}

InitCommas ==
    /\ pc = "commas"
    /\ input \in TextsUpTo(MaxLen)
    /\ cleaned = input
    /\ idx = 0
    /\ line = <<>>
    /\ nlines = 0
    /\ pending = EmptyMap
    /\ current_addr = None
    /\ current_nonce = None
    /\ result = NoResult
    /\ files = EmptyMap

CommasAgain ==
    /\ pc = "final"
    /\ cleaned' = FixTrailingCommas(cleaned)
    /\ pc' = "again"
    /\ UNCHANGED <<ContentKeep, idx, result, files>>

NextCommas == ContentCommas \/ CommasAgain

SpecCommas == InitCommas /\ [][NextCommas]_vars

----------------------------------------------------------------------------
(* Properties of the Inspect translator, checked under SpecInspect.        *)

\* a step of the loop: line' is the line it processed
LineStep == pc = "loop" /\ nlines' # nlines

AddrLinesOf(a) == {AddrLine(a), <<" "," "," "," ","0","x">> \o AddrLine(a)}

IsNonceLine(ln) == \E n \in Nonces : ln = NonceLine(n)

IsCloseLine(ln) == Trim(ln) = <<"}">> \/ Trim(ln) = <<"}",",">>

CurrentEntry == pending[current_addr[1]][current_nonce[1]]

\* C1: a line whose trimmed text is "}" or "}," pops exactly one level (in
\* InNonce only the nonce is cleared and the address stays; otherwise in
\* InAddress the address is cleared; in Idle nothing changes), and no other
\* line clears the current nonce or the current address.
C1_ClosePopsOneLevel ==
    [][LineStep =>
        /\ pc' = "loop"
        /\ IF IsCloseLine(line')
           THEN /\ pending' = pending
                /\ IF current_nonce # None
                   THEN /\ current_nonce' = None
                        /\ current_addr' = current_addr
                        /\ current_addr' # None
                   ELSE current_addr' = None /\ current_nonce' = None
           ELSE /\ current_nonce # None => current_nonce' # None
                /\ current_addr # None => current_addr' # None]_vars

\* C1 witness: a closing line has just popped InNonce to InAddress, the nonce
\* object it closed still in the map.
C1_Witness ==
    /\ pc = "loop"
    /\ IsCloseLine(line)
    /\ current_nonce = None
    /\ current_addr # None
    /\ HasKey(pending, current_addr[1])

\* C2 as claimed: processing an address-shaped line stores "0x" and the
\* captured run as the current address and creates or reuses that address's
\* object, so that the map has a key for it from then on.
C2_AddrLineCreatesObject ==
    [][LineStep =>
        \A a \in Addrs :
            line' \in AddrLinesOf(a) =>
                /\ current_addr' = Some(<<"0","x">> \o a)
                /\ HasKey(pending', <<"0","x">> \o a)]_vars

\* C2 amended: an address-shaped line stores "0x" and the captured run as
\* the current address and leaves the map alone; keys enter the map only
\* at a nonce line, which creates the object of the current address or
\* reuses it, its other nonces kept.
C2_ObjectCreatedAtNonceLine ==
    [][LineStep =>
        /\ \A a \in Addrs :
              line' \in AddrLinesOf(a) =>
                  current_addr' = Some(<<"0","x">> \o a) /\ pending' = pending
        /\ DOMAIN pending' # DOMAIN pending => IsNonceLine(line')
        /\ \A n \in Nonces :
              (line' = NonceLine(n) /\ current_addr # None) =>
                  LET a == current_addr[1]
                  IN  /\ DOMAIN pending' = DOMAIN pending \cup {a}
                      /\ pending'[a][n] = EmptyMap
                      /\ \A b \in DOMAIN pending \ {a} : pending'[b] = pending[b]
                      /\ HasKey(pending, a) =>
                            /\ DOMAIN pending'[a] = DOMAIN pending[a] \cup {n}
                            /\ \A m \in DOMAIN pending[a] \ {n} :
                                  pending'[a][m] = pending[a][m]]_vars

\* C2 witness: a nonce line has reused the object of the current address,
\* which now holds both nonces.
C2_Witness ==
    /\ pc = "loop"
    /\ IsNonceLine(line)
    /\ current_addr # None
    /\ HasKey(pending, current_addr[1])
    /\ DOMAIN pending[current_addr[1]] = Nonces

\* C3 as claimed: the Inspect call never fails; whatever the lines, it
\* returns success with the object {"pending": {...}} built so far.
C3_InspectNeverFails ==
    pc \in {"returned", "failed"} => result = Ok(Root(pending))

\* C4 as claimed: in InNonce (a current nonce is set), the line "to: None,"
\* leaves the current nonce object with the key "to" present and null, and
\* "to: Some(<addr>)," leaves it holding the string "0x<addr>", the wrapper
\* stripped.
C4_ToNullOrPrefixed ==
    [][(LineStep /\ current_nonce # None) =>
        /\ Trim(line') = ToNoneLine =>
              /\ HasEntry(pending', current_addr', current_nonce')
              /\ HasKey(CurrentEntry', <<"t","o">>)
              /\ CurrentEntry'[<<"t","o">>] = JNull
        /\ \A a \in Addrs :
              line' = ToSomeLine(a) =>
                  /\ HasEntry(pending', current_addr', current_nonce')
                  /\ HasKey(CurrentEntry', <<"t","o">>)
                  /\ CurrentEntry'[<<"t","o">>] = JStr(<<"0","x">> \o a)]_vars

\* the literals of IntLiterals that are decimal integers in [0, 2^64-1],
\* with the number each denotes
Denotes(lit) ==
    CASE lit = <<"7">> -> Some(<<"7">>)
      [] lit = <<"0","0","7">> -> Some(<<"7">>)
      [] lit = <<"+","7">> -> Some(<<"7">>)
      [] lit = <<"1","8","4","4","6","7","4","4","0","7","3","7","0","9","5","5","1","6","1","5">> -> Some(<<"1","8","4","4","6","7","4","4","0","7","3","7","0","9","5","5","1","6","1","5">>)
      [] OTHER -> None

IntFieldsInRange(p) ==
    \A a \in DOMAIN p : \A n \in DOMAIN p[a] : \A f \in IntFields :
        HasKey(p[a][n], f) =>
            \E lit \in IntLiterals :
                Denotes(lit) # None /\ p[a][n][f] = JNum(Denotes(lit)[1])

\* C5: value, gas and gas_price appear in a nonce object only as a number in
\* [0, 2^64-1] equal to the literal; a literal that is no decimal integer in
\* that range inserts nothing, raises no error and leaves the map unchanged.
C5_IntegerFieldsU64 ==
    [][LineStep =>
        /\ IntFieldsInRange(pending')
        /\ \A f \in IntFields : \A lit \in IntLiterals :
              line' = FieldLine(f, lit) =>
                  /\ pc' = "loop" /\ result' = NoResult
                  /\ IF Denotes(lit) # None
                        /\ HasEntry(pending, current_addr, current_nonce)
                     THEN pending' =
                            Put(pending, current_addr[1],
                                Put(pending[current_addr[1]], current_nonce[1],
                                    Put(CurrentEntry, f, JNum(Denotes(lit)[1]))))
                     ELSE pending' = pending]_vars

\* C5 witness: "value: 18446744073709551615," has been processed and the
\* nonce object holds that number.
C5_Witness ==
    /\ pc = "loop"
    /\ line = FieldLine(<<"v","a","l","u","e">>, U64MaxDigits)
    /\ HasEntry(pending, current_addr, current_nonce)
    /\ HasKey(CurrentEntry, <<"v","a","l","u","e">>)
    /\ CurrentEntry[<<"v","a","l","u","e">>] = JNum(U64MaxDigits)

\* C10 as claimed: whenever a current nonce is set, the object
\* pending[current address][current nonce] exists, so that field lines
\* reach the object the most recent nonce line created.
C10_CurrentEntryExists ==
    (pc = "loop" /\ current_nonce # None) =>
        HasEntry(pending, current_addr, current_nonce)

----------------------------------------------------------------------------
(* Properties of main and of the Content translator.                       *)

NoMarker(text) ==
    ~Contains(text, ContentMarker) /\ ~Contains(text, InspectMarker)

\* C6: for an input with neither the Content marker nor the Inspect marker,
\* parse_debug_format fails with the unrecognized-format error, neither
\* translator has run (no rewritten text, no line processed, no entry), and
\* no output file and no diagnostic file exists when main has failed.
C6_NoMarkerFailsWithoutOutput ==
    NoMarker(input) =>
        /\ pc \in {"main", "failed"}
        /\ pc = "failed" => result = Err("UnknownFormat", 0, 0)
        /\ pc = "main" => result = NoResult
        /\ files = EmptyMap
        /\ cleaned = <<>> /\ idx = 0
        /\ pending = EmptyMap /\ nlines = 0

\* C6 witness: main has failed on a non-empty text without a marker.
C6_Witness ==
    /\ NoMarker(input)
    /\ input # <<>>
    /\ pc = "failed"
    /\ result = Err("UnknownFormat", 0, 0)
    /\ files = EmptyMap

\* parse_txpool_content has returned an error for a rewritten text that is
\* not JSON
ContentFailed ==
    /\ pc = "failed"
    /\ Contains(input, ContentMarker)
    /\ ParseJson(cleaned).tag = "Err"

\* C7 as claimed: whenever the rewritten text of the Content path fails to
\* parse as JSON, the error returned is the parser's with its line and
\* column, the diagnostic file holds exactly the rewritten text, and there
\* is no output file.
C7_JsonFailureWritesDiagnostic ==
    ContentFailed =>
        /\ result = ParseJson(cleaned)
        /\ HasKey(files, DiagName)
        /\ files[DiagName] = cleaned
        /\ ~HasKey(files, OutputName)

\* C7 amended: whenever the rewritten text of the Content path fails to
\* parse as JSON, the run fails with no output file and no value; when the
\* clock was read and the diagnostic file written, the error is the
\* parser's with its line and column and the file holds exactly the
\* rewritten text; otherwise the error of the clock or of the write is
\* returned in its place, and after a clock error there is no file at all.
C7_JsonFailureDiagnosticOrIoError ==
    ContentFailed =>
        /\ result.tag = "Err"
        /\ ~HasKey(files, OutputName)
        /\ \/ /\ result = ParseJson(cleaned)
              /\ result.kind = "JsonSyntax"
              /\ HasKey(files, DiagName)
              /\ files[DiagName] = cleaned
           \/ result = Err("Io", 0, 0)
           \/ result = Err("SystemTime", 0, 0) /\ files = EmptyMap

\* C7 witness: a Content text that the rewrites changed has failed to
\* parse, and the diagnostic file holds the rewritten text.
C7_Witness ==
    /\ ContentFailed
    /\ result.tag = "Err" /\ result.kind = "JsonSyntax"
    /\ HasKey(files, DiagName)
    /\ files[DiagName] = cleaned
    /\ cleaned # input
    /\ ~HasKey(files, OutputName)

\* C8: the trailing-comma rewrites are idempotent: applied to their own
\* output they change nothing (the text after the second application is
\* the text after the first).
C8_TrailingCommasIdempotent ==
    pc = "again" => cleaned = FixTrailingCommas(input)

\* C9: for every object of Objects and every nesting of wrapper tokens
\* around it, parse_txpool_content succeeds and returns a value equal to
\* the object.
C9_RoundTrip ==
    \A ws \in Nestings, f \in Forms, o \in Objects :
        input = Wrap(ws, f, o.text) =>
            /\ pc # "failed"
            /\ pc = "returned" => result = Ok(o.value)

====
